---- MODULE Spec2Model ----
(***************************************************************************)
(* A model of bartpy's data layer (bartpy/data.py, class Data), of the     *)
(* noise-variance Gibbs step (bartpy/samplers/sigma.py, SigmaSampler) and  *)
(* of the constructor of SelectNullDistributionThreshold                   *)
(* (bartpy/featureselection.py).                                           *)
(*                                                                         *)
(* Column names are sequences of one-character strings, so that indexing a *)
(* name (name[1]) is something the model can do.  Real numbers are exact   *)
(* rationals <<numerator, denominator>> in lowest terms with a positive    *)
(* denominator.  Column values are totally ordered scalars (integers).     *)
(***************************************************************************)
EXTENDS Integers, Sequences, FiniteSets, TLC

VARIABLES
    \* ---- Data: the covariate side
    X,                  \* self._X : column name -> sequence of row values
    cache,              \* the cache argument of Data.__init__
    n_unique_values,    \* self._n_unique_values (empty function when cache is off)
    max_values,         \* self._max_values      (empty function when cache is off)
    rv_outcome,         \* how the last random_splittable_variable() call ended
    rv_result,          \* what it returned
    rsv_pc,             \* position of the running random_splittable_value() call
    rsv_variable,       \* its argument
    max_value,          \* its local max_value
    candidate,          \* its local candidate
    rsv_redrew,         \* whether its while loop body ran at least once
    \* ---- Data: the response side
    y_given,            \* the y argument of Data.__init__ (kept for the claims)
    normalize,          \* the normalize argument of Data.__init__
    y_,                 \* self._y
    original_y_min,     \* self.original_y_min (set only when normalize)
    original_y_max,     \* self.original_y_max (set only when normalize)
    ny_arg,             \* the vector a client passes to Data.normalize_y
    ny_out,             \* the result of that call
    un_source,          \* which call produced un_out: unnormalize_y or unnormalized_y
    un_outcome,         \* how that call ended
    un_out,             \* its result
    \* ---- the model state and the Sigma parameter holder
    residuals,          \* what model.residuals() returns now
    sigma_alpha,        \* sigma.alpha
    sigma_beta,         \* sigma.beta
    sigma_value,        \* sigma's current value
    gamma_shape,        \* shape argument of the last np.random.gamma call
    gamma_scale,        \* scale argument of the last np.random.gamma call
    gamma_draw,         \* what that call returned
    step_ret,           \* what the last Sampler.step call returned
    \* ---- SelectNullDistributionThreshold
    sel_arg,            \* arguments of the last constructor call
    sel_status,         \* how the constructor ended
    sel_method,         \* self.method
    sel_percentile,     \* self.percentile
    sel_n_permutations  \* self.n_permutations

dataVars == <<X, cache, n_unique_values, max_values, rv_outcome, rv_result,
              rsv_pc, rsv_variable, max_value, candidate, rsv_redrew>>

normVars == <<y_given, normalize, y_, original_y_min, original_y_max,
              ny_arg, ny_out, un_source, un_outcome, un_out>>

sigmaVars == <<residuals, sigma_alpha, sigma_beta, sigma_value,
               gamma_shape, gamma_scale, gamma_draw, step_ret>>

selVars == <<sel_arg, sel_status, sel_method, sel_percentile, sel_n_permutations>>

otherThanData == <<normVars, sigmaVars, selVars>>
otherThanNorm == <<dataVars, sigmaVars, selVars>>
otherThanSigma == <<dataVars, normVars, selVars>>
otherThanSel == <<dataVars, normVars, sigmaVars>>

vars == <<dataVars, normVars, sigmaVars, selVars>>

-----------------------------------------------------------------------------
(* Bounds of the explored inputs *)

MaxRows == 2
MaxVal == 2
MaxLen == 3
MaxY == 2
MaxObsv == 2
MaxResid == 1
MaxPermutations == 5

Vals == 0..MaxVal

\* The column-name sets of the explored covariate matrices.
ColumnSets ==
    { {<<"a">>}, {<<"a", "b">>}, {<<"a">>, <<"a", "b">>}, {<<"a", "b">>, <<"b", "a">>} }

NoName == <<>>

-----------------------------------------------------------------------------
(* numpy / pandas reductions used by Data.__init__ *)

\* pd.Series.nunique: the number of first occurrences in the column
nunique(col) ==
    Cardinality({ i \in 1..Len(col) : \A j \in 1..(i - 1) : col[j] # col[i] })

RECURSIVE np_max_takes_min(_)
np_max_takes_min(col) ==
    IF Len(col) = 1 THEN col[1]
    ELSE LET m == np_max_takes_min(Tail(col)) IN IF col[1] < m THEN col[1] ELSE m

\* np.max of a column
RECURSIVE np_max(_)
np_max(col) ==
    IF Len(col) = 1 THEN col[1]
    ELSE LET m == np_max(Tail(col)) IN IF col[1] > m THEN col[1] ELSE m

EmptyDict == [c \in {} |-> 0]

\* Data.__init__, lines 26-28: the two caches, computed once
CacheNUnique(frame, enabled) ==
    IF enabled THEN [c \in DOMAIN frame |-> nunique(frame[c])] ELSE EmptyDict

CacheMax(frame, enabled) ==
    IF enabled THEN [c \in DOMAIN frame |-> np_max(frame[c])] ELSE EmptyDict

-----------------------------------------------------------------------------
(* Data: accessors *)

variables == DOMAIN X

n_obsv == Len(X[CHOOSE c \in DOMAIN X : TRUE])

splittable_variables_off_by_one ==
    { x \in DOMAIN n_unique_values : n_unique_values[x] >= 1 }

splittable_variables ==
    { x \in DOMAIN n_unique_values : n_unique_values[x] > 1 }

n_splittable_variables == Cardinality(splittable_variables)

unique_values(variable) == { X[variable][i] : i \in 1..Len(X[variable]) }

\* np.random.choice(np.array(names), 1)[0][0]: the first [0] takes the drawn
\* name out of the one-element array, the second [0] indexes that string.
Chosen(name) == SubSeq(name, 1, 1)

\* line 61: len(splittable_variables) == 0
NoneSplittableUpToOne(names) == Cardinality(names) <= 1

NoneSplittable(names) == Cardinality(names) = 0

\* line 85: the while condition
KeepDrawingInverted(cand, maxv) == cand # maxv

KeepDrawing(cand, maxv) == cand = maxv

-----------------------------------------------------------------------------
(* Data: construction *)

Frames ==
    UNION { UNION { [cols -> [1..n -> Vals]] : n \in 1..MaxRows } : cols \in ColumnSets }

RvIdle ==
    /\ rv_outcome = "none"
    /\ rv_result = NoName

RsvIdle ==
    /\ rsv_pc = "idle"
    /\ rsv_variable = NoName
    /\ max_value = 0
    /\ candidate = 0
    /\ rsv_redrew = FALSE

InitData ==
    /\ X \in Frames
    /\ cache \in BOOLEAN
    /\ n_unique_values = CacheNUnique(X, cache)
    /\ max_values = CacheMax(X, cache)
    /\ RvIdle
    /\ RsvIdle

storeVars == <<X, cache, n_unique_values, max_values>>

\* The locals and the return value of a call are gone when the next call starts.
RvReset ==
    /\ rv_outcome' = "none"
    /\ rv_result' = NoName

RsvReset ==
    /\ rsv_pc' = "idle"
    /\ rsv_variable' = NoName
    /\ max_value' = 0
    /\ candidate' = 0
    /\ rsv_redrew' = FALSE

\* No call of the store is running (the code is single-threaded).
NoCallRunning == rsv_pc # "while"

-----------------------------------------------------------------------------
(* Data.random_splittable_variable, lines 53-63 *)

random_splittable_variable ==
    /\ NoCallRunning
    /\ RsvReset
    /\ IF ~cache
       THEN \* self._n_unique_values was never set
            /\ rv_outcome' = "AttributeError"
            /\ rv_result' = NoName
       ELSE IF NoneSplittable(splittable_variables)
       THEN /\ rv_outcome' = "NoSplittableVariableException"
            /\ rv_result' = NoName
       ELSE \E name \in splittable_variables :
            /\ rv_outcome' = "returned"
            /\ rv_result' = Chosen(name)
    /\ UNCHANGED storeVars

-----------------------------------------------------------------------------
(* Data.random_splittable_value, lines 65-87 *)

\* lines 83-84: read the cached maximum and draw the first candidate
rsv_call(variable) ==
    /\ NoCallRunning
    /\ variable \in variables
    /\ RvReset
    /\ rsv_variable' = variable
    /\ rsv_redrew' = FALSE
    /\ IF ~cache
       THEN \* self._max_values was never set
            /\ rsv_pc' = "AttributeError"
            /\ max_value' = 0
            /\ candidate' = 0
       ELSE /\ rsv_pc' = "while"
            /\ max_value' = max_values[variable]
            /\ \E i \in 1..Len(X[variable]) : candidate' = X[variable][i]
    /\ UNCHANGED storeVars

\* lines 85-86: the loop body, drawing row i
rsv_redraw(i) ==
    /\ rsv_pc = "while"
    /\ KeepDrawing(candidate, max_value)
    /\ i \in 1..Len(X[rsv_variable])
    /\ candidate' = X[rsv_variable][i]
    /\ rsv_redrew' = TRUE
    /\ UNCHANGED <<storeVars, rv_outcome, rv_result, rsv_pc, rsv_variable, max_value>>

\* line 87
rsv_return ==
    /\ rsv_pc = "while"
    /\ ~KeepDrawing(candidate, max_value)
    /\ rsv_pc' = "returned"
    /\ UNCHANGED <<storeVars, rv_outcome, rv_result, rsv_variable, max_value,
                   candidate, rsv_redrew>>

NextData ==
    \/ random_splittable_variable /\ UNCHANGED otherThanData
    \/ \E variable \in variables : rsv_call(variable) /\ UNCHANGED otherThanData
    \/ \E i \in 1..MaxRows : rsv_redraw(i) /\ UNCHANGED otherThanData
    \/ rsv_return /\ UNCHANGED otherThanData



-----------------------------------------------------------------------------
(* Exact rational arithmetic: <<n, d>> with d > 0 and gcd(n, d) = 1 *)

Abs(n) == IF n < 0 THEN -n ELSE n

RECURSIVE Gcd(_, _)
Gcd(a, b) == IF b = 0 THEN a ELSE Gcd(b, a % b)

Rat(n, d) ==
    LET g == Gcd(Abs(n), Abs(d))
        sgn == IF d < 0 THEN -1 ELSE 1
    IN  <<(sgn * n) \div g, (sgn * d) \div g>>

RAdd(p, q) == Rat(p[1] * q[2] + q[1] * p[2], p[2] * q[2])
RSub(p, q) == Rat(p[1] * q[2] - q[1] * p[2], p[2] * q[2])
RMul(p, q) == Rat(p[1] * q[1], p[2] * q[2])
RDiv(p, q) == Rat(p[1] * q[2], p[2] * q[1])
RLt(p, q) == p[1] * q[2] < q[1] * p[2]
RLe(p, q) == p[1] * q[2] <= q[1] * p[2]

Half == <<1, 2>>
MinusHalf == <<-1, 2>>
Zero == <<0, 1>>

\* np.min / np.max of an array of reals
RECURSIVE RMin(_)
RMin(y) ==
    IF Len(y) = 1 THEN y[1]
    ELSE LET m == RMin(Tail(y)) IN IF RLt(y[1], m) THEN y[1] ELSE m

RECURSIVE RMax(_)
RMax(y) ==
    IF Len(y) = 1 THEN y[1]
    ELSE LET m == RMax(Tail(y)) IN IF RLt(m, y[1]) THEN y[1] ELSE m

-----------------------------------------------------------------------------
(* Data.normalize_y, lines 115-135, and Data.unnormalize_y, lines 137-140 *)

normalize_y_unshifted(y) ==
    LET y_min == RMin(y)
        y_max == RMax(y)
    IN  [i \in 1..Len(y) |-> RDiv(RSub(y[i], y_min), RSub(y_max, y_min))]

normalize_y(y) ==
    LET y_min == RMin(y)
        y_max == RMax(y)
    IN  [i \in 1..Len(y) |->
            RAdd(MinusHalf, RDiv(RSub(y[i], y_min), RSub(y_max, y_min)))]

unnormalize_y_from_zero(y, omin, omax) ==
    LET total_distance == RSub(omax, omin)
    IN  [i \in 1..Len(y) |-> RAdd(omin, RMul(y[i], total_distance))]

unnormalize_y_unit_distance(y, omin, omax) ==
    [i \in 1..Len(y) |-> RAdd(omin, RSub(y[i], MinusHalf))]

unnormalize_y(y, omin, omax) ==
    LET total_distance == RSub(omax, omin)
    IN  [i \in 1..Len(y) |->
            LET distance_from_min == RSub(y[i], MinusHalf)
            IN  RAdd(omin, RMul(distance_from_min, total_distance))]

\* Data.normalizing_scale, lines 146-148
normalizing_scale == RSub(original_y_max, original_y_min)

\* The caller precondition of normalize_y: a response that is not constant.
HasRange(y) == RLt(RMin(y), RMax(y))

YVectors ==
    UNION { [1..n -> { <<k, 1>> : k \in 0..MaxY }] : n \in 1..MaxLen }

RangedYVectors == { y \in YVectors : HasRange(y) }

NoVector == <<>>

\* Data.__init__, lines 21-25
StoredY(y, norm) == IF norm THEN normalize_y(y) ELSE y

OriginalMin(y, norm) == IF norm THEN RMin(y) ELSE Zero

OriginalMax(y, norm) == IF norm THEN RMax(y) ELSE Zero

NoNormCalls ==
    /\ ny_out = NoVector
    /\ un_source = "none"
    /\ un_outcome = "none"
    /\ un_out = NoVector

\* The response of the stores whose covariate side is explored: all zero,
\* not normalized.
InitNormFixed ==
    /\ y_given = [i \in 1..n_obsv |-> Zero]
    /\ normalize = FALSE
    /\ y_ = StoredY(y_given, normalize)
    /\ original_y_min = OriginalMin(y_given, normalize)
    /\ original_y_max = OriginalMax(y_given, normalize)
    /\ ny_arg = <<Zero, <<1, 1>>>>
    /\ NoNormCalls

\* Every response, normalized or not, and every vector a client may pass to
\* normalize_y.  A constant response is outside normalize_y's precondition.
InitNorm ==
    /\ y_given \in YVectors
    /\ normalize \in BOOLEAN
    /\ normalize => y_given \in RangedYVectors
    /\ y_ = StoredY(y_given, normalize)
    /\ original_y_min = OriginalMin(y_given, normalize)
    /\ original_y_max = OriginalMax(y_given, normalize)
    /\ ny_arg \in RangedYVectors
    /\ NoNormCalls

\* The covariates of the stores whose response side is explored: one column
\* holding the row numbers.
InitDataFixed ==
    /\ X = [c \in {<<"a">>} |-> [i \in 1..Len(y_given) |-> i]]
    /\ cache = TRUE
    /\ n_unique_values = CacheNUnique(X, cache)
    /\ max_values = CacheMax(X, cache)
    /\ RvIdle
    /\ RsvIdle

storeYVars == <<y_given, normalize, y_, original_y_min, original_y_max, ny_arg>>

\* A client calls the static Data.normalize_y(ny_arg)
call_normalize_y ==
    /\ ny_out' = normalize_y(ny_arg)
    /\ UNCHANGED <<storeYVars, un_source, un_outcome, un_out>>

\* A client passes the result on: store.unnormalize_y(Data.normalize_y(ny_arg))
call_unnormalize_y ==
    /\ ny_out # NoVector
    /\ un_source' = "unnormalize_y"
    /\ IF normalize
       THEN /\ un_outcome' = "returned"
            /\ un_out' = unnormalize_y(ny_out, original_y_min, original_y_max)
       ELSE \* self.original_y_max was never set
            /\ un_outcome' = "AttributeError"
            /\ un_out' = NoVector
    /\ UNCHANGED <<storeYVars, ny_out>>

\* The property Data.unnormalized_y, lines 142-144
unnormalized_y ==
    /\ un_source' = "unnormalized_y"
    /\ IF normalize
       THEN /\ un_outcome' = "returned"
            /\ un_out' = unnormalize_y(y_, original_y_min, original_y_max)
       ELSE /\ un_outcome' = "AttributeError"
            /\ un_out' = NoVector
    /\ UNCHANGED <<storeYVars, ny_out>>

NextNorm ==
    \/ call_normalize_y /\ UNCHANGED otherThanNorm
    \/ call_unnormalize_y /\ UNCHANGED otherThanNorm
    \/ unnormalized_y /\ UNCHANGED otherThanNorm

-----------------------------------------------------------------------------
(* The model state read by SigmaSampler, and the Sigma parameter holder *)

One == <<1, 1>>

ResidualVectors(n) ==
    [1..n -> { <<k, 1>> : k \in (0 - MaxResid)..MaxResid }]

\* The prior hyperparameters and the gamma draws that are explored.  The
\* draws are squares, so that their power -0.5 is a rational.
SigmaAlphas == { <<1, 1>>, <<3, 2>> }
SigmaBetas == { <<1, 2>>, <<2, 1>> }
GammaDraws == { <<1, 4>>, <<1, 1>>, <<4, 1>>, <<4, 9>> }

NoStep == <<"none", FALSE>>

InitSigma ==
    /\ residuals \in ResidualVectors(n_obsv)
    /\ sigma_alpha \in SigmaAlphas
    /\ sigma_beta \in SigmaBetas
    /\ sigma_value = One
    /\ gamma_shape = Zero
    /\ gamma_scale = Zero
    /\ gamma_draw = Zero
    /\ step_ret = NoStep

InitSigmaFixed ==
    /\ residuals = [i \in 1..n_obsv |-> Zero]
    /\ sigma_alpha = One
    /\ sigma_beta = One
    /\ sigma_value = One
    /\ gamma_shape = Zero
    /\ gamma_scale = Zero
    /\ gamma_draw = Zero
    /\ step_ret = NoStep

\* The stores of the explored model states: n rows, one column, no
\* normalization.
InitDataOfModel ==
    /\ \E n \in 1..MaxObsv : X = [c \in {<<"a">>} |-> [i \in 1..n |-> i]]
    /\ cache = TRUE
    /\ n_unique_values = CacheNUnique(X, cache)
    /\ max_values = CacheMax(X, cache)
    /\ RvIdle
    /\ RsvIdle

\* A step of a tree or leaf sampler of the sweep: it changes the fitted
\* values, hence the residuals, and returns its own name and acceptance flag.
tree_step ==
    /\ residuals' \in ResidualVectors(n_obsv)
    /\ \E accepted \in BOOLEAN : step_ret' = <<"Tree", accepted>>
    /\ UNCHANGED <<sigma_alpha, sigma_beta, sigma_value,
                   gamma_shape, gamma_scale, gamma_draw>>

\* Sigma.set_value
set_value(value) == sigma_value' = value

-----------------------------------------------------------------------------
(* SigmaSampler, bartpy/samplers/sigma.py *)

\* np.sum(np.square(r))
RECURSIVE np_sum_square(_)
np_sum_square(r) ==
    IF Len(r) = 0 THEN Zero
    ELSE RAdd(RMul(r[1], r[1]), np_sum_square(Tail(r)))

\* line 18
posterior_alpha_not_halved(alpha, n) == RAdd(alpha, <<n, 1>>)

posterior_alpha(alpha, n) == RAdd(alpha, RDiv(<<n, 1>>, <<2, 1>>))

\* line 19
posterior_beta(beta, r) == RAdd(beta, RMul(Half, np_sum_square(r)))

\* the square root of a square
ISqrt(n) == CHOOSE k \in 0..n : k * k = n

\* np.power(g, -0.5)
np_power_minus_half(g) == Rat(ISqrt(g[2]), ISqrt(g[1]))

\* SigmaSampler.step, lines 12-14, with SigmaSampler.sample, lines 17-21
sigma_step ==
    /\ gamma_shape' = posterior_alpha(sigma_alpha, n_obsv)
    /\ gamma_scale' = RDiv(One, posterior_beta(sigma_beta, residuals))
    /\ gamma_draw' \in GammaDraws
    /\ set_value(np_power_minus_half(gamma_draw'))
    /\ step_ret' = <<"Sigma", TRUE>>
    /\ UNCHANGED <<residuals, sigma_alpha, sigma_beta>>

NextSigma ==
    \/ tree_step /\ UNCHANGED otherThanSigma
    \/ sigma_step /\ UNCHANGED otherThanSigma

-----------------------------------------------------------------------------
(* SelectNullDistributionThreshold.__init__, bartpy/featureselection.py *)

Methods == { "local", "global", "LOCAL", "", "both" }
Percentiles == { <<1, 2>>, <<9, 10>>, <<19, 20>>, <<99, 100>> }

Unset == "unset"

NoArgs == <<"none", Zero, 0>>

InitSel ==
    /\ sel_arg = NoArgs
    /\ sel_status = "none"
    /\ sel_method = Unset
    /\ sel_percentile = Zero
    /\ sel_n_permutations = 0

\* line 40: the message is formatted from self.method before the error is
\* raised; reading an attribute that was never assigned raises AttributeError
RaisedInElse(method_attribute) ==
    IF method_attribute = Unset THEN "AttributeError" ELSE "NotImplementedError"

\* lines 30-43; every call constructs a new object, whose attributes start unset
construct(method, percentile, n_permutations) ==
    /\ sel_arg' = <<method, percentile, n_permutations>>
    /\ IF method = "local"
       THEN /\ sel_method' = "local_thresholds"
            /\ sel_status' = "constructed"
            /\ sel_percentile' = percentile
            /\ sel_n_permutations' = n_permutations
       ELSE IF method = "global"
       THEN /\ sel_method' = "global_thresholds"
            /\ sel_status' = "constructed"
            /\ sel_percentile' = percentile
            /\ sel_n_permutations' = n_permutations
       ELSE /\ sel_status' = RaisedInElse(Unset)
            /\ sel_method' = Unset
            /\ sel_percentile' = Zero
            /\ sel_n_permutations' = 0

NextSel ==
    \E method \in Methods : \E percentile \in Percentiles :
        \E n_permutations \in 1..MaxPermutations :
            construct(method, percentile, n_permutations) /\ UNCHANGED otherThanSel

-----------------------------------------------------------------------------
(* Specifications.  The store, the sampler and the selector do not share  *)
(* state that any of them writes, so each is explored on its own, with the *)
(* state of the others held at one value.                                  *)

\* The response side of the store
InitSpecNorm == InitNorm /\ InitDataFixed /\ InitSigmaFixed /\ InitSel

SpecNorm == InitSpecNorm /\ [][NextNorm]_vars

\* Sweeps: tree steps and variance steps, one at a time
InitSpecSigma == InitDataOfModel /\ InitNormFixed /\ InitSigma /\ InitSel

SpecSigma == InitSpecSigma /\ [][NextSigma]_vars

\* Constructions of selectors
InitSpecSel == InitDataOfModel /\ InitNormFixed /\ InitSigmaFixed /\ InitSel

SpecSel == InitSpecSel /\ [][NextSel]_vars


-----------------------------------------------------------------------------
(* Specifications of the covariate side *)

InitSpecData == InitData /\ InitNormFixed /\ InitSigmaFixed /\ InitSel

SpecData == InitSpecData /\ [][NextData]_vars

\* Fair random draws: a row that can be drawn is eventually drawn, and a
\* finished loop returns.
SpecDataFair ==
    /\ SpecData
    /\ \A i \in 1..MaxRows : WF_vars(rsv_redraw(i) /\ UNCHANGED otherThanData)
    /\ WF_vars(rsv_return /\ UNCHANGED otherThanData)

-----------------------------------------------------------------------------
(* Claims about the covariate side of Data *)

\* Does column c take two different values over the rows of the store?
TakesTwoValues(c) ==
    \E i \in 1..Len(X[c]) : \E j \in 1..Len(X[c]) : X[c][i] # X[c][j]

\* C1: whenever random_splittable_variable() returns, the value it returns is
\* a member of splittable_variables(), i.e. a whole column name.
C1_ReturnsSplittableName ==
    rv_outcome = "returned" => rv_result \in splittable_variables

\* C2: a call of random_splittable_variable() ends with
\* NoSplittableVariableException exactly when splittable_variables() is
\* empty; on a store with a splittable variable no call raises it.
C2_RaisesIffNoneSplittable ==
    rv_outcome # "none" =>
        ( rv_outcome = "NoSplittableVariableException"
            <=> (cache /\ splittable_variables = {}) )

C2_Witness ==
    /\ rv_outcome = "NoSplittableVariableException"
    /\ \A c \in variables : ~TakesTwoValues(c)

\* C3: on a store built with caching enabled, splittable_variables() is
\* exactly the set of columns that take more than one distinct value; a
\* column holding one repeated value is excluded.
C3_SplittableIsMoreThanOneValue ==
    cache =>
        /\ splittable_variables = { c \in variables : TakesTwoValues(c) }
        /\ \A c \in variables :
              (\A i \in 1..Len(X[c]) : X[c][i] = X[c][1]) => c \notin splittable_variables

C3_Witness ==
    /\ cache
    /\ n_obsv > 1
    /\ \E c \in variables : c \in splittable_variables
    /\ \E c \in variables : c \notin splittable_variables
    /\ rv_outcome = "returned"

\* C4: for a variable with cardinality > 1, a value returned by
\* random_splittable_value is an observed value of the variable, differs from
\* the cached maximum, and splits the rows into two non-empty sides
\* (rows <= value, rows > value).
C4_ReturnedValueSplits ==
    (rsv_pc = "returned" /\ n_unique_values[rsv_variable] > 1) =>
        /\ candidate \in unique_values(rsv_variable)
        /\ candidate # max_values[rsv_variable]
        /\ \E i \in 1..n_obsv : X[rsv_variable][i] <= candidate
        /\ \E i \in 1..n_obsv : X[rsv_variable][i] > candidate

C4_Witness ==
    /\ rsv_pc = "returned"
    /\ n_unique_values[rsv_variable] > 1
    /\ rsv_redrew

\* Every observed value of the variable of the running call is its cached maximum.
AllValuesAreMax ==
    \A i \in 1..Len(X[rsv_variable]) : X[rsv_variable][i] = max_values[rsv_variable]

\* C5: under fair draws the rejection loop of random_splittable_value(v)
\* terminates whenever v has cardinality > 1, and it never leaves the loop
\* when every observed value of v equals the cached maximum.
C5_LoopTerminatesIffSplittable ==
    /\ (rsv_pc = "while" /\ n_unique_values[rsv_variable] > 1) ~> (rsv_pc = "returned")
    /\ [][(rsv_pc = "while" /\ AllValuesAreMax) => rsv_pc' = "while"]_vars

C5_Witness ==
    /\ rsv_pc = "while"
    /\ n_unique_values[rsv_variable] > 1
    /\ candidate = max_value
    /\ rsv_redrew

-----------------------------------------------------------------------------
(* Claims about the response side of Data *)

\* The client's round trip unnormalize_y(normalize_y(ny_arg)) has returned.
RoundTripReturned ==
    /\ normalize
    /\ un_source = "unnormalize_y"
    /\ un_outcome = "returned"

\* C6: on a store built with normalize=True from a response y with
\* max(y) > min(y), unnormalize_y(normalize_y(y)) = y and the property
\* unnormalized_y equals the y given at construction.
C6_RoundTripOfOwnResponse ==
    /\ (RoundTripReturned /\ ny_arg = y_given) => un_out = y_given
    /\ (normalize /\ un_source = "unnormalized_y") =>
            (un_outcome = "returned" /\ un_out = y_given)

C6_Witness ==
    /\ normalize
    /\ un_source = "unnormalized_y"
    /\ un_outcome = "returned"
    /\ Len(y_given) = MaxLen
    /\ \E i \in 1..Len(y_) : RLt(MinusHalf, y_[i]) /\ RLt(y_[i], Half)

\* Every value of y lies within the original range of the store.
WithinOriginalRange(y) ==
    \A i \in 1..Len(y) : RLe(original_y_min, y[i]) /\ RLe(y[i], original_y_max)

\* C7 as stated: the round trip returns y for any y (with max > min) whose
\* values lie within the original range of the store.
C7_RoundTripWithinRange ==
    (RoundTripReturned /\ WithinOriginalRange(ny_arg)) => un_out = ny_arg

\* C7 as amended: the round trip returns y for any y whose minimum and
\* maximum are the original minimum and maximum of the store.
C7_RoundTripSameRange ==
    ( /\ RoundTripReturned
      /\ RMin(ny_arg) = original_y_min
      /\ RMax(ny_arg) = original_y_max ) => un_out = ny_arg

C7_Witness ==
    /\ RoundTripReturned
    /\ RMin(ny_arg) = original_y_min
    /\ RMax(ny_arg) = original_y_max
    /\ ny_arg # y_given
    /\ un_out = ny_arg

\* C8 as stated: every element of normalize_y(y) is strictly between -0.5
\* and 0.5.
C8_OpenInterval ==
    \A i \in 1..Len(ny_out) : RLt(MinusHalf, ny_out[i]) /\ RLt(ny_out[i], Half)

\* C8 as amended: every element of normalize_y(y) lies in the closed
\* interval [-0.5, 0.5]; the minimum of y maps to -0.5 and its maximum to 0.5.
C8_ClosedInterval ==
    ny_out # NoVector =>
        /\ \A i \in 1..Len(ny_out) :
              /\ RLe(MinusHalf, ny_out[i]) /\ RLe(ny_out[i], Half)
              /\ ny_arg[i] = RMin(ny_arg) => ny_out[i] = MinusHalf
              /\ ny_arg[i] = RMax(ny_arg) => ny_out[i] = Half
        /\ Len(ny_out) = Len(ny_arg)

C8_Witness ==
    /\ ny_out # NoVector
    /\ \E i \in 1..Len(ny_out) : ny_out[i] = MinusHalf
    /\ \E i \in 1..Len(ny_out) : ny_out[i] = Half
    /\ \E i \in 1..Len(ny_out) : ny_out[i] = Zero

-----------------------------------------------------------------------------
(* Claims about the variance step and the selector *)

\* The state a SigmaSampler.step leaves: it returned ("Sigma", True), sigma's
\* value is g^(-0.5) for the gamma draw g, and the draw was made with shape
\* alpha + n_obsv/2 and rate beta + 0.5*sum(r_i^2) for the residuals r the
\* model has at that call.
C9_StateAfterSigmaStep ==
    step_ret[1] = "Sigma" =>
        /\ step_ret = <<"Sigma", TRUE>>
        /\ RLt(Zero, sigma_value)
        /\ RMul(RMul(sigma_value, sigma_value), gamma_draw) = One
        /\ RMul(<<2, 1>>, RSub(gamma_shape, sigma_alpha)) = <<n_obsv, 1>>
        /\ RMul(gamma_scale,
                RAdd(sigma_beta,
                     RDiv(np_sum_square(residuals), <<2, 1>>))) = One

\* C9: in every sweep sequence the state after a SigmaSampler.step is as
\* above (return value, gamma arguments from the current model state, new
\* value), a step that returns "Sigma" leaves the residuals, the
\* hyperparameters and the store unchanged, and sigma's value changes only
\* in such a step.
C9_SigmaStep ==
    /\ []C9_StateAfterSigmaStep
    /\ [][step_ret'[1] = "Sigma" =>
            UNCHANGED <<residuals, sigma_alpha, sigma_beta, dataVars, normVars>>]_vars
    /\ [][sigma_value' # sigma_value => step_ret'[1] = "Sigma"]_vars

C9_Witness ==
    /\ step_ret[1] = "Sigma"
    /\ n_obsv = MaxObsv
    /\ \E i \in 1..n_obsv : residuals[i] # Zero
    /\ sigma_value # One

\* C10: constructing SelectNullDistributionThreshold with "local" or
\* "global" succeeds; with any other method name the constructor fails with
\* NotImplementedError and no selector is constructed.
C10_NotImplementedForOtherMethods ==
    sel_status # "none" =>
        IF sel_arg[1] \in {"local", "global"}
        THEN sel_status = "constructed"
        ELSE sel_status = "NotImplementedError" /\ sel_method = Unset

====
